---- MODULE Spec2Model ----
(***************************************************************************)
(* Model of app.py: the process-wide WebDriverManager (one shared Selenium *)
(* engine handle) and the fetch_page coroutine that the two /proxy         *)
(* endpoints run on the single asyncio event loop.                         *)
(*                                                                         *)
(* Every call the code makes on the engine, on requests.post and on        *)
(* webdriver.Chrome(...) can raise; each such call is a step whose outcome *)
(* is chosen nondeterministically.                                         *)
(***************************************************************************)
EXTENDS Integers, Sequences, FiniteSets, TLC

VARIABLES driver, nextId, live, web, running, pc, req, drv, fld, err, outcome, log, ncalls, calc

vars == <<driver, nextId, live, web, running, pc, req, drv, fld, err, outcome, log, ncalls, calc>>

(* ------------------------------ bounds --------------------------------- *)

\* number of requests the HTTP layer delivers during one run
MaxCalls == 2

\* largest number of entries of request_data.data
MaxFields == 2

\* largest number of characters of request_data.url
MaxUrlLen == 4

\* largest number of entries of request_data.params
MaxParams == 2

(* ----------------------------- universe -------------------------------- *)

\* the handler coroutines that can be pending on the event loop at once
Procs == {1, 2}

\* web origins a navigation can pass through or land on
Origins == {"a", "b"}

\* Python's None for the two optional selectors
None == "<None>"

NoDriver == 0

NoErr == [site |-> "none", wrapped |-> FALSE]

NoOutcome == [shape |-> "none", cause |-> NoErr]

\* cookies / localStorage / sessionStorage of the engine held in driver, by origin,
\* and the origin of the document it currently shows
BlankWeb == [cur |-> "blank", cookies |-> {}, local |-> {}, session |-> {}]

FieldNames == <<"q", "r", "s", "t">>

DataValues == {SubSeq(FieldNames, 1, n) : n \in 0..MaxFields}

JsonValues == {<<>>, <<"k">>}

FormSelectors == {None, "", "form#s"}

SubmitSelectors == {None, "", "button"}

\* class RequestData, without url/params/headers (they do not select a strategy)
RequestData(d, j, fs, ss, ep) ==
    [data |-> d, json_data |-> j, form_selector |-> fs, submit_selector |-> ss, endpoint |-> ep]

NoReq == RequestData(<<>>, <<>>, None, None, "none")

\* proxy_get: RequestData(url=url, params=params or {}, headers=headers or {})
ProxyGetRequest == RequestData(<<>>, <<>>, None, None, "GET")

\* proxy_post: the body is the RequestData
ProxyPostRequests ==
    {RequestData(d, j, fs, ss, "POST") :
        d \in DataValues, j \in JsonValues, fs \in FormSelectors, ss \in SubmitSelectors}

\* Python truth value of an Optional[str]
TruthyStr(s) == s # None /\ s # ""

\* Python truth value of a dict
TruthyDict(d) == Len(d) > 0

\* the if / elif / else of fetch_page with the json test moved first
SelectStrategyJsonFirst(r) ==
    IF TruthyDict(r.json_data) THEN "json"
    ELSE IF TruthyDict(r.data) /\ TruthyStr(r.form_selector) /\ TruthyStr(r.submit_selector)
         THEN "form"
    ELSE "plain"

\* the elif written as "json_data is not None", true of every dict
SelectStrategyJsonNotNone(r) ==
    IF TruthyDict(r.data) /\ TruthyStr(r.form_selector) /\ TruthyStr(r.submit_selector)
    THEN "form"
    ELSE "json"

\* the form test written as "if request_data.data:", without the selectors
SelectStrategyDataOnly(r) ==
    IF TruthyDict(r.data) THEN "form"
    ELSE IF TruthyDict(r.json_data) THEN "json"
    ELSE "plain"

\* the if / elif / else of fetch_page
SelectStrategy(r) ==
    IF TruthyDict(r.data) /\ TruthyStr(r.form_selector) /\ TruthyStr(r.submit_selector)
    THEN "form"
    ELSE IF TruthyDict(r.json_data) THEN "json"
    ELSE "plain"

\* reset_driver as if its body awaited something that yields to the event loop
ResetDriverSuspendsYes == TRUE

\* whether "await driver_manager.reset_driver()" gives the event loop to another
\* coroutine: reset_driver's body holds no await, so the await runs it to the end
ResetDriverSuspends == FALSE

(* ---------------------------- event loop ------------------------------- *)

\* pcs at which a coroutine is parked and the loop may resume it
Parked == IF ResetDriverSuspends THEN {"reset_cookies"} ELSE {}

\* the event loop runs p: p owns the thread, or the thread is free and p is parked
Holds(p) == running = p \/ (running = 0 /\ pc[p] \in Parked)

Entry(op, ok, eng) == [op |-> op, ok |-> ok, eng |-> eng]

Logged(p, op, ok, eng) == [log EXCEPT ![p] = Append(@, Entry(op, ok, eng))]

TypeOK ==
    /\ driver \in 0..(nextId - 1)
    /\ nextId \in 1..(2 * MaxCalls + 2)
    /\ live \subseteq 1..(nextId - 1)
    /\ running \in Procs \cup {0}
    /\ ncalls \in 0..MaxCalls
    /\ \A p \in Procs : fld[p] \in 0..MaxFields

ManagerInit ==
    /\ driver = 1                       \* lifespan: start_driver() before serving
    /\ nextId = 2
    /\ live = {1}
    /\ web = BlankWeb
    /\ running = 0
    /\ pc = [p \in Procs |-> "idle"]
    /\ req = [p \in Procs |-> NoReq]
    /\ drv = [p \in Procs |-> NoDriver]
    /\ fld = [p \in Procs |-> 0]
    /\ err = [p \in Procs |-> NoErr]
    /\ outcome = [p \in Procs |-> NoOutcome]
    /\ log = [p \in Procs |-> <<>>]
    /\ ncalls = 0

\* the url work of fetch_page, followed on its own: nothing to assemble
NoCalc == [at |-> "none", url |-> <<>>, params |-> <<>>, assembled |-> <<>>, posted |-> <<>>, visited |-> <<>>]

Init == ManagerInit /\ calc = NoCalc

(* ------------------------- WebDriverManager ---------------------------- *)

\* start_driver raises: no handle is held and webdriver.Chrome(...) fails
StartRaises(ok) == driver = NoDriver /\ ~ok

\* start_driver: a held handle is returned as it is; otherwise webdriver.Chrome(...)
\* either yields a new engine (ok) or raises and leaves driver None
StartDriver(ok) ==
    IF driver = NoDriver /\ ok
    THEN /\ driver' = nextId
         /\ nextId' = nextId + 1
         /\ live' = live \cup {nextId}
         /\ web' = BlankWeb
    ELSE UNCHANGED <<driver, nextId, live, web>>

\* stop_driver with "self.driver = None" inside the try, after quit(): a failed
\* quit leaves the handle in place
StopDriverKeepsOnFailure(quitOk, survives) ==
    IF driver = NoDriver \/ ~quitOk
    THEN UNCHANGED <<driver, nextId, live, web>>
    ELSE /\ driver' = NoDriver
         /\ live' = live \ {driver}
         /\ web' = BlankWeb
         /\ UNCHANGED nextId

\* stop_driver: with a handle held, quit() (its exception is swallowed; the engine
\* process may survive a failed quit) and driver = None; without one, nothing
StopDriver(quitOk, survives) ==
    IF driver = NoDriver
    THEN UNCHANGED <<driver, nextId, live, web>>
    ELSE /\ driver' = NoDriver
         /\ live' = IF quitOk \/ ~survives THEN live \ {driver} ELSE live
         /\ web' = BlankWeb
         /\ UNCHANGED nextId

\* the engine a step of p drives still is the one the manager holds
Usable(p) == drv[p] # NoDriver /\ drv[p] = driver

\* driver.get(url) / a submitting click: the engine loads documents, possibly over
\* redirects across origins; pages on the way write cookies and storage (the
\* steps below let a page that writes write all three kinds)
Visit(land, wc, wl, ws) ==
    web' = [cur |-> land,
            cookies |-> web.cookies \cup wc,
            local |-> web.local \cup wl,
            session |-> web.session \cup ws]

\* the exception handled by running the strategy once more
RaiseAndRetry(p, site, wrapped) ==
    /\ err' = [err EXCEPT ![p] = [site |-> site, wrapped |-> wrapped]]
    /\ pc' = [pc EXCEPT ![p] = "select"]

\* an exception inside fetch_page's try: control goes to "except Exception"
Raise(p, site, wrapped) ==
    /\ err' = [err EXCEPT ![p] = [site |-> site, wrapped |-> wrapped]]
    /\ pc' = [pc EXCEPT ![p] = "recover_stop"]

\* fetch_page is left: the response (or the escaping exception) is fixed
Finish(p, shape, cause) ==
    /\ outcome' = [outcome EXCEPT ![p] = [shape |-> shape, cause |-> cause]]
    /\ pc' = [pc EXCEPT ![p] = "done"]

(* ------------------------------ requests -------------------------------- *)

\* uvicorn accepts a request and creates the task that will run its endpoint
Arrive(p) ==
    /\ pc[p] = "idle"
    /\ ncalls < MaxCalls
    /\ ncalls' = ncalls + 1
    /\ pc' = [pc EXCEPT ![p] = "ready"]
    /\ UNCHANGED <<driver, nextId, live, web, running, req, drv, fld, err, outcome, log>>
    /\ UNCHANGED calc

\* the event loop starts the endpoint: proxy_get or proxy_post calls fetch_page
\* (the log notes the handle the manager holds at that moment)
Begin(p) ==
    /\ pc[p] = "ready"
    /\ running = 0
    /\ running' = p
    /\ \E r \in {ProxyGetRequest} \cup ProxyPostRequests : req' = [req EXCEPT ![p] = r]
    /\ pc' = [pc EXCEPT ![p] = "acquire"]
    /\ log' = Logged(p, "enter", TRUE, driver)
    /\ UNCHANGED <<driver, nextId, live, web, drv, fld, err, outcome, ncalls>>
    /\ UNCHANGED calc

\* driver = driver_manager.start_driver(), before the try
Acquire(p) ==
    /\ pc[p] = "acquire"
    /\ Holds(p)
    /\ running' = p
    /\ \E ok \in BOOLEAN :
        /\ StartDriver(ok)
        /\ log' = Logged(p, "start_driver", ~StartRaises(ok), driver')
        /\ IF StartRaises(ok)
           THEN /\ Finish(p, "raw", [site |-> "acquire", wrapped |-> FALSE])
                /\ UNCHANGED drv
           ELSE /\ drv' = [drv EXCEPT ![p] = driver']
                /\ pc' = [pc EXCEPT ![p] = "select"]
                /\ UNCHANGED outcome
    /\ UNCHANGED <<req, fld, err, ncalls>>
    /\ UNCHANGED calc

\* the strategy test of the if / elif / else
Select(p) ==
    /\ pc[p] = "select"
    /\ Holds(p)
    /\ running' = p
    /\ pc' = [pc EXCEPT ![p] =
                CASE SelectStrategy(req[p]) = "form" -> "form_get"
                  [] SelectStrategy(req[p]) = "json" -> "post"
                  [] OTHER -> "plain_get"]
    /\ UNCHANGED <<driver, nextId, live, web, req, drv, fld, err, outcome, log, ncalls>>
    /\ UNCHANGED calc

\* driver.get(url); driver.implicitly_wait(10) of either strategy
Navigate(p) ==
    /\ pc[p] \in {"form_get", "json_get", "plain_get"}
    /\ Holds(p)
    /\ running' = p
    /\ \/ /\ Usable(p)
          /\ \E land \in Origins, w \in SUBSET Origins : Visit(land, w, w, w)
          /\ log' = Logged(p, "get", TRUE, drv[p])
          /\ pc' = [pc EXCEPT ![p] = IF pc[p] = "form_get" THEN "find_form" ELSE "capture"]
          /\ UNCHANGED err
       \/ /\ log' = Logged(p, "get", FALSE, drv[p])
          /\ Raise(p, "get", FALSE)
          /\ UNCHANGED web
    /\ UNCHANGED <<driver, nextId, live, req, drv, fld, outcome, ncalls>>
    /\ UNCHANGED calc

\* requests.post(...); response.raise_for_status(); a RequestException of either
\* is re-raised as HTTPException("Error in POST request: ...")
Post(p) ==
    /\ pc[p] = "post"
    /\ Holds(p)
    /\ running' = p
    /\ \E res \in {"ok", "request_error", "error_status"} :
        /\ log' = Logged(p, "post", res = "ok", NoDriver)
        /\ IF res = "ok"
           THEN pc' = [pc EXCEPT ![p] = "json_get"] /\ UNCHANGED err
           ELSE Raise(p, "post", TRUE)
    /\ UNCHANGED <<driver, nextId, live, web, req, drv, fld, outcome, ncalls>>
    /\ UNCHANGED calc

\* the element calls of the form strategy, each of which can raise:
\* form = driver.find_element(CSS, form_selector); per entry of data
\* form.find_element(NAME, key), clear(), send_keys(value);
\* submit_button = driver.find_element(CSS, submit_selector)
FormStepNext(p) ==
    CASE pc[p] = "find_form" -> "find_field"
      [] pc[p] = "find_field" -> "clear_field"
      [] pc[p] = "clear_field" -> "send_keys"
      [] pc[p] = "send_keys" -> IF fld[p] < Len(req[p].data) THEN "find_field" ELSE "find_submit"
      [] OTHER -> "click"

FormStep(p) ==
    /\ pc[p] \in {"find_form", "find_field", "clear_field", "send_keys", "find_submit"}
    /\ Holds(p)
    /\ running' = p
    /\ \/ /\ Usable(p)
          /\ log' = Logged(p, pc[p], TRUE, drv[p])
          /\ pc' = [pc EXCEPT ![p] = FormStepNext(p)]
          /\ fld' = [fld EXCEPT ![p] =
                        IF pc[p] = "find_form" THEN 1
                        ELSE IF pc[p] = "send_keys" /\ @ < Len(req[p].data) THEN @ + 1
                        ELSE @]
          /\ UNCHANGED err
       \/ /\ log' = Logged(p, pc[p], FALSE, drv[p])
          /\ Raise(p, pc[p], FALSE)
          /\ UNCHANGED fld
    /\ UNCHANGED <<driver, nextId, live, web, req, drv, outcome, ncalls>>
    /\ UNCHANGED calc

\* submit_button.click(); driver.implicitly_wait(10): the form is submitted
Click(p) ==
    /\ pc[p] = "click"
    /\ Holds(p)
    /\ running' = p
    /\ \/ /\ Usable(p)
          /\ \E land \in Origins, w \in SUBSET Origins : Visit(land, w, w, w)
          /\ log' = Logged(p, "click", TRUE, drv[p])
          /\ pc' = [pc EXCEPT ![p] = "capture"]
          /\ UNCHANGED err
       \/ /\ log' = Logged(p, "click", FALSE, drv[p])
          /\ Raise(p, "click", FALSE)
          /\ UNCHANGED web
    /\ UNCHANGED <<driver, nextId, live, req, drv, fld, outcome, ncalls>>
    /\ UNCHANGED calc

\* page_content = driver.page_source, then "await driver_manager.reset_driver()"
Capture(p) ==
    /\ pc[p] = "capture"
    /\ Holds(p)
    /\ \/ /\ Usable(p)
          /\ log' = Logged(p, "page_source", TRUE, drv[p])
          /\ pc' = [pc EXCEPT ![p] = "reset_cookies"]
          /\ running' = IF ResetDriverSuspends THEN 0 ELSE p
          /\ UNCHANGED err
       \/ /\ log' = Logged(p, "page_source", FALSE, drv[p])
          /\ Raise(p, "page_source", FALSE)
          /\ running' = p
    /\ UNCHANGED <<driver, nextId, live, web, req, drv, fld, outcome, ncalls>>
    /\ UNCHANGED calc

\* what one clearing call of reset_driver leaves: delete_all_cookies() deletes the
\* cookies associated with the current document, window.localStorage.clear() and
\* window.sessionStorage.clear() empty the storage of the current document's origin
Cleared(step) ==
    CASE step = "reset_cookies" -> [web EXCEPT !.cookies = @ \ {web.cur}]
      [] step = "reset_local" -> [web EXCEPT !.local = @ \ {web.cur}]
      [] OTHER -> [web EXCEPT !.session = @ \ {web.cur}]

\* the try body of reset_driver, one call per step, on self.driver
ResetStep(p) ==
    /\ pc[p] \in {"reset_cookies", "reset_local", "reset_session"}
    /\ Holds(p)
    /\ running' = p
    /\ \/ /\ driver # NoDriver
          /\ web' = Cleared(pc[p])
          /\ log' = Logged(p, pc[p], TRUE, driver)
          /\ IF pc[p] = "reset_session"
             THEN Finish(p, "success", NoErr)
             ELSE /\ pc' = [pc EXCEPT ![p] =
                              IF pc[p] = "reset_cookies" THEN "reset_local" ELSE "reset_session"]
                  /\ UNCHANGED outcome
       \/ /\ log' = Logged(p, pc[p], FALSE, driver)
          /\ pc' = [pc EXCEPT ![p] = "rs_stop"]
          /\ UNCHANGED <<web, outcome>>
    /\ UNCHANGED <<driver, nextId, live, req, drv, fld, err, ncalls>>
    /\ UNCHANGED calc

\* reset_driver's except branch, first call: self.stop_driver()
ResetStop(p) ==
    /\ pc[p] = "rs_stop"
    /\ Holds(p)
    /\ running' = p
    /\ \E quitOk, survives \in BOOLEAN : StopDriver(quitOk, survives)
    /\ log' = Logged(p, "stop_driver", TRUE, driver)
    /\ pc' = [pc EXCEPT ![p] = "rs_start"]
    /\ UNCHANGED <<req, drv, fld, err, outcome, ncalls>>
    /\ UNCHANGED calc

\* reset_driver's except branch, second call: self.start_driver(); what it raises
\* leaves reset_driver and is caught by fetch_page's "except Exception"
ResetStart(p) ==
    /\ pc[p] = "rs_start"
    /\ Holds(p)
    /\ running' = p
    /\ \E ok \in BOOLEAN :
        /\ StartDriver(ok)
        /\ log' = Logged(p, "start_driver", ~StartRaises(ok), driver')
        /\ IF StartRaises(ok)
           THEN Raise(p, "reset_start", FALSE) /\ UNCHANGED outcome
           ELSE Finish(p, "success", NoErr) /\ UNCHANGED err
    /\ UNCHANGED <<req, drv, fld, ncalls>>
    /\ UNCHANGED calc

\* fetch_page's except branch: logger.error(...); driver_manager.stop_driver()
RecoverStop(p) ==
    /\ pc[p] = "recover_stop"
    /\ Holds(p)
    /\ running' = p
    /\ \E quitOk, survives \in BOOLEAN : StopDriver(quitOk, survives)
    /\ log' = Logged(p, "stop_driver", TRUE, driver)
    /\ pc' = [pc EXCEPT ![p] = "recover_start"]
    /\ UNCHANGED <<req, drv, fld, err, outcome, ncalls>>
    /\ UNCHANGED calc

\* fetch_page's except branch: driver_manager.start_driver(), then
\* raise HTTPException(500, "Error fetching URL: " + str(e)); an exception of
\* start_driver leaves fetch_page in place of that HTTPException
RecoverStart(p) ==
    /\ pc[p] = "recover_start"
    /\ Holds(p)
    /\ running' = p
    /\ \E ok \in BOOLEAN :
        /\ StartDriver(ok)
        /\ log' = Logged(p, "start_driver", ~StartRaises(ok), driver')
        /\ IF StartRaises(ok)
           THEN Finish(p, "raw", [site |-> "recover_start", wrapped |-> FALSE])
           ELSE Finish(p, "HTTP500", err[p])
    /\ UNCHANGED <<req, drv, fld, err, ncalls>>
    /\ UNCHANGED calc

\* the endpoint returns fetch_page's result or the exception goes to the framework;
\* the coroutine ends and the event loop is free
Return(p) ==
    /\ pc[p] = "done"
    /\ Holds(p)
    /\ running' = 0
    /\ pc' = [pc EXCEPT ![p] = "idle"]
    /\ req' = [req EXCEPT ![p] = NoReq]
    /\ drv' = [drv EXCEPT ![p] = NoDriver]
    /\ fld' = [fld EXCEPT ![p] = 0]
    /\ err' = [err EXCEPT ![p] = NoErr]
    /\ outcome' = [outcome EXCEPT ![p] = NoOutcome]
    /\ log' = [log EXCEPT ![p] = <<>>]
    /\ UNCHANGED <<driver, nextId, live, web, ncalls>>
    /\ UNCHANGED calc

Next ==
    \E p \in Procs :
        \/ Arrive(p)
        \/ Begin(p)
        \/ Acquire(p)
        \/ Select(p)
        \/ Navigate(p)
        \/ Post(p)
        \/ FormStep(p)
        \/ Click(p)
        \/ Capture(p)
        \/ ResetStep(p)
        \/ ResetStop(p)
        \/ ResetStart(p)
        \/ RecoverStop(p)
        \/ RecoverStart(p)
        \/ Return(p)

Spec == Init /\ [][Next]_vars

(* --------------------------- url assembly ------------------------------- *)

\* characters a url is made of: a plain one, the query and the fragment delimiter
UrlChars == {"x", "?", "#"}

\* request_data.url: a string that begins with a plain character (its scheme)
UrlValues == {u \in UNION {[1..n -> UrlChars] : n \in 1..MaxUrlLen} : u[1] = "x"}

ParamKeys == {"a", "b", "c"}

\* a plain character, and one that url encoding rewrites (a space)
ParamChars == {"1", " "}

\* request_data.params: a dict, in insertion order, as <<key, value>> entries
ParamsValues ==
    {ps \in UNION {[1..n -> ParamKeys \X ParamChars] : n \in 0..MaxParams} :
        \A i, j \in DOMAIN ps : i # j => ps[i][1] # ps[j][1]}

\* "&".join(parts)
RECURSIVE Join(_)
Join(parts) ==
    IF Len(parts) = 0 THEN <<>>
    ELSE IF Len(parts) = 1 THEN parts[1]
    ELSE parts[1] \o <<"&">> \o Join(Tail(parts))

\* [f"{key}={value}" for key, value in params.items()]
Rendered(params) == [i \in DOMAIN params |-> <<params[i][1], "=", params[i][2]>>]

\* the url assembly with "?" appended whatever the url holds
AssembleAlwaysQuestion(url, params) ==
    IF Len(params) = 0 THEN url ELSE url \o <<"?">> \o Join(Rendered(params))

\* url = request_data.url; if request_data.params: query_string = ...;
\* url = f"{url}?{query_string}" if "?" not in url else f"{url}&{query_string}"
Assemble(url, params) ==
    IF Len(params) = 0 THEN url
    ELSE IF \A i \in DOMAIN url : url[i] # "?"
         THEN url \o <<"?">> \o Join(Rendered(params))
         ELSE url \o <<"&">> \o Join(Rendered(params))

\* position of the first c in s, Len(s) + 1 without one
First(s, c) ==
    IF \E i \in DOMAIN s : s[i] = c
    THEN CHOOSE i \in DOMAIN s : s[i] = c /\ \A j \in 1..(i - 1) : s[j] # c
    ELSE Len(s) + 1

\* urlencode of requests' _encode_params: quote_plus writes a space as "+"
Encode(params) ==
    Join([i \in DOMAIN params |->
            <<params[i][1], "=", IF params[i][2] = " " THEN "+" ELSE params[i][2]>>])

\* requote_uri: a space of the url is written "%20"
Requote(s) == [i \in DOMAIN s |-> IF s[i] = " " THEN "%20" ELSE s[i]]

\* the url requests.post(url, params=params) sends to (PreparedRequest.prepare_url):
\* the url is split at its fragment and query, the encoded params are added to
\* the query it has, and the parts are put together again
PostUrl(url, params) ==
    LET h == First(url, "#")
        pre == SubSeq(url, 1, h - 1)
        frag == SubSeq(url, h + 1, Len(url))
        q == First(pre, "?")
        base == SubSeq(pre, 1, q - 1)
        query == SubSeq(pre, q + 1, Len(pre))
        enc == Encode(params)
        full == IF Len(query) > 0 /\ Len(enc) > 0 THEN query \o <<"&">> \o enc
                ELSE query \o enc
    IN  Requote(base
                \o (IF Len(full) > 0 THEN <<"?">> \o full ELSE <<>>)
                \o (IF Len(frag) > 0 THEN <<"#">> \o frag ELSE <<>>))

\* the manager's variables, which the url work leaves alone
managerVars == <<driver, nextId, live, web, running, pc, req, drv, fld, err, outcome, log, ncalls>>

\* a request with some url and params enters fetch_page
InitUrl ==
    /\ ManagerInit
    /\ \E u \in UrlValues, ps \in ParamsValues :
        calc = [at |-> "input", url |-> u, params |-> ps,
                assembled |-> <<>>, posted |-> <<>>, visited |-> <<>>]

\* the url assembly at the head of the try
AssembleUrl ==
    /\ calc.at = "input"
    /\ calc' = [calc EXCEPT !.at = "assembled", !.assembled = Assemble(calc.url, calc.params)]
    /\ UNCHANGED managerVars

\* the JSON strategy: requests.post(url, ..., params=request_data.params), then
\* driver.get(url), both with the assembled url
PostThenGet ==
    /\ calc.at = "assembled"
    /\ calc' = [calc EXCEPT !.at = "visited",
                            !.posted = PostUrl(calc.assembled, calc.params),
                            !.visited = calc.assembled]
    /\ UNCHANGED managerVars

NextUrl == AssembleUrl \/ PostThenGet

SpecUrl == InitUrl /\ [][NextUrl]_vars

(* ------------------------- reading a call's log ------------------------- *)

HasOp(p, op, ok) == \E i \in DOMAIN log[p] : log[p][i].op = op /\ log[p][i].ok = ok

CountOp(p, op) == Cardinality({i \in DOMAIN log[p] : log[p][i].op = op})

FormOps == {"find_form", "find_field", "clear_field", "send_keys", "find_submit", "click"}

\* p is between the start of fetch_page and its end
Busy(p) == pc[p] \notin {"idle", "ready", "done"}

\* fetch_page has ended, by return or by raise
Returned(p) == pc[p] = "done"

\* the exception that reached "except Exception" came out of the dispatch part
DispatchFailed(p) == err[p].site \notin {"none", "reset_start"}

\* the dispatch part ran to its end: the page was captured
DispatchSucceeded(p) == HasOp(p, "page_source", TRUE)

\* position in the log of the dispatch call that raised
FailIdx(p) ==
    CHOOSE i \in DOMAIN log[p] :
        ~log[p][i].ok /\ log[p][i].op \notin {"start_driver", "stop_driver"}

(* ------------------------------- claims --------------------------------- *)

\* C1: whenever fetch_page has ended, with a result or with an exception, the
\* manager holds an engine handle (driver is not None).
C1_ReadyAfterFetch == \A p \in Procs : Returned(p) => driver # NoDriver

\* C2: two fetch_page calls never are inside fetch_page at the same time: all
\* steps of one call, clear or recovery included, end before the other begins.
C2_NoOverlap == \A p, q \in Procs : p # q => ~(Busy(p) /\ Busy(q))

\* a second request is pending while the first call is in the middle of clearing
C2_Witness ==
    \E p, q \in Procs : p # q /\ pc[p] = "reset_local" /\ pc[q] = "ready"

\* C3: after a call whose dispatch failed, the log ends with exactly one stop_driver
\* and one start_driver after the failing call, and the handle held is a newly
\* created engine, not the one the call used.
C3_RecreatedAfterFailure ==
    \A p \in Procs :
        (Returned(p) /\ DispatchFailed(p)) =>
            /\ Len(log[p]) = FailIdx(p) + 2
            /\ log[p][FailIdx(p) + 1].op = "stop_driver"
            /\ log[p][FailIdx(p) + 2].op = "start_driver"
            /\ driver # NoDriver
            /\ driver # drv[p]
            /\ driver = log[p][Len(log[p])].eng

\* C4: a call whose dispatch failed surfaces the failure that made dispatch fail,
\* whatever stop_driver and start_driver do during recovery.
C4_OriginalFailureSurfaced ==
    \A p \in Procs :
        (Returned(p) /\ DispatchFailed(p)) => outcome[p].cause = err[p]

\* C5: every call that ends in failure ends with HTTPException 500
\* "Error fetching URL: ..." and has run the recovery (stop_driver, start_driver).
C5_UniformFailure ==
    \A p \in Procs :
        (Returned(p) /\ outcome[p].shape # "success") =>
            /\ outcome[p].shape = "HTTP500"
            /\ HasOp(p, "stop_driver", TRUE)

\* C6: no exception leaves reset_driver, and a call whose dispatch succeeded ends
\* with its success result.
C6_ResetNeverFails ==
    \A p \in Procs :
        /\ err[p].site # "reset_start"
        /\ (Returned(p) /\ DispatchSucceeded(p)) => outcome[p].shape = "success"

\* C7: after a call that ended with a success result the engine held has no
\* cookie, no localStorage and no sessionStorage content, of any origin.
C7_CleanAfterSuccess ==
    \A p \in Procs :
        (Returned(p) /\ outcome[p].shape = "success") =>
            web.cookies = {} /\ web.local = {} /\ web.session = {}

\* the request has data and both selectors (each a non-empty string)
FormRequest(r) ==
    Len(r.data) > 0 /\ r.form_selector \notin {None, ""} /\ r.submit_selector \notin {None, ""}

\* C8: a request with data and both selectors takes the form strategy, also with
\* json_data: no POST is issued, it never is on the JSON or plain path, and a
\* page is captured only after the submit was clicked.
C8_FormHasPriority ==
    \A p \in Procs :
        FormRequest(req[p]) =>
            /\ pc[p] \notin {"post", "json_get", "plain_get"}
            /\ CountOp(p, "post") = 0
            /\ HasOp(p, "page_source", TRUE) => HasOp(p, "click", TRUE)

\* a request with data, both selectors and json_data ended with success
C8_Witness ==
    \E p \in Procs :
        /\ FormRequest(req[p])
        /\ Len(req[p].json_data) > 0
        /\ Returned(p)
        /\ outcome[p].shape = "success"

\* the request has neither data nor json_data
PlainRequest(r) == Len(r.data) = 0 /\ Len(r.json_data) = 0

\* C9: a request without data and json_data takes the plain path: no POST, no form
\* call, at most one navigation and one capture, exactly one of each when it
\* succeeds; every request of GET /proxy is such a request.
C9_PlainNavigation ==
    \A p \in Procs :
        /\ req[p].endpoint = "GET" => PlainRequest(req[p])
        /\ PlainRequest(req[p]) =>
            /\ pc[p] \notin {"post", "json_get", "form_get", "click"}
            /\ CountOp(p, "post") = 0
            /\ \A op \in FormOps : CountOp(p, op) = 0
            /\ CountOp(p, "get") <= 1
            /\ CountOp(p, "page_source") <= 1
            /\ outcome[p].shape = "success" =>
                    HasOp(p, "get", TRUE) /\ HasOp(p, "page_source", TRUE)

\* a request of GET /proxy ended with success
C9_Witness ==
    \E p \in Procs :
        /\ req[p].endpoint = "GET"
        /\ Returned(p)
        /\ outcome[p].shape = "success"
        /\ CountOp(p, "get") = 1

\* C10: in the JSON strategy a failed POST ends the call as the POST's failure with
\* no navigation in the call and a newly created engine held afterwards; a
\* navigation of the JSON strategy happens only after a successful POST.
C10_PostFailureAborts ==
    \A p \in Procs :
        /\ (pc[p] = "json_get" \/ (SelectStrategy(req[p]) = "json" /\ CountOp(p, "get") > 0))
                => HasOp(p, "post", TRUE)
        /\ (Returned(p) /\ HasOp(p, "post", FALSE)) =>
            /\ CountOp(p, "get") = 0
            /\ outcome[p].shape = "HTTP500"
            /\ outcome[p].cause.site = "post"
            /\ driver # NoDriver
            /\ driver # drv[p]

\* the url has a query component: a "?" that no "#" precedes
HasQueryComponent(url) == First(url, "?") < First(url, "#")

\* the assembled url is the url, then c, then the entries as key=value with "&"
\* between them, read position by position
AppendedWith(c) ==
    LET u == calc.url
        ps == calc.params
        out == calc.assembled
        at(i) == Len(u) + 4 * (i - 1)
    IN  /\ Len(out) = Len(u) + 4 * Len(ps)
        /\ SubSeq(out, 1, Len(u)) = u
        /\ out[Len(u) + 1] = c
        /\ \A i \in DOMAIN ps :
            /\ out[at(i) + 2] = ps[i][1]
            /\ out[at(i) + 3] = "="
            /\ out[at(i) + 4] = ps[i][2]
            /\ i > 1 => out[at(i) + 1] = "&"

\* C11 as stated: empty params leave the url unchanged; otherwise the entries are
\* appended with "?" when the url has no query component and with "&" when it has.
C11_UrlAssembly ==
    calc.at = "assembled" =>
        IF Len(calc.params) = 0 THEN calc.assembled = calc.url
        ELSE AppendedWith(IF HasQueryComponent(calc.url) THEN "&" ELSE "?")

\* C11 amended: empty params leave the url unchanged; otherwise the entries are
\* appended with "?" when the url holds no "?" character at all and with "&" when
\* it holds one anywhere, a "?" inside the fragment included.
C11_UrlAssemblyByCharacter ==
    calc.at = "assembled" =>
        IF Len(calc.params) = 0 THEN calc.assembled = calc.url
        ELSE AppendedWith(IF \E i \in DOMAIN calc.url : calc.url[i] = "?" THEN "&" ELSE "?")

\* params were appended with "&" to a url whose only "?" stands in its fragment
C11_Witness ==
    /\ calc.at = "assembled"
    /\ Len(calc.params) > 0
    /\ First(calc.url, "#") < First(calc.url, "?")
    /\ First(calc.url, "?") <= Len(calc.url)
    /\ calc.assembled[Len(calc.url) + 1] = "&"

\* C16: in the JSON strategy the url the POST is sent to is the url the browser
\* navigates to (as requests writes that url), every query parameter once.
C16_SameUrl ==
    calc.at = "visited" => calc.posted = PostUrl(calc.visited, <<>>)

\* the calls that start or carry out a strategy
StrategyOps == {"post", "get", "page_source"} \cup FormOps

\* C12: within one call the POST, the navigation and the submitting click each
\* happen at most once, and after the call that failed nothing but stop_driver
\* and start_driver follows.
C12_NoRetry ==
    \A p \in Procs :
        /\ CountOp(p, "post") <= 1
        /\ CountOp(p, "get") <= 1
        /\ CountOp(p, "click") <= 1
        /\ \A i, j \in DOMAIN log[p] :
            (i < j /\ ~log[p][i].ok /\ log[p][i].op \in StrategyOps)
                => log[p][j].op \in {"stop_driver", "start_driver"}

\* a call whose dispatch failed has recovered and ended with its error
C12_Witness ==
    \E p \in Procs :
        /\ Returned(p)
        /\ DispatchFailed(p)
        /\ outcome[p].shape = "HTTP500"
        /\ HasOp(p, "start_driver", TRUE)

\* C13: every call of stop_driver returns normally (the next statement runs, no
\* exception is pending because of it) and leaves driver None, whether quit()
\* failed or not; called with no handle held it changes nothing and quits nothing.
C13_StopDriverIdempotent ==
    [][\A p \in Procs :
        (pc[p] \in {"rs_stop", "recover_stop"} /\ pc'[p] # pc[p]) =>
            /\ driver' = NoDriver
            /\ pc'[p] = (IF pc[p] = "rs_stop" THEN "rs_start" ELSE "recover_start")
            /\ err'[p] = err[p]
            /\ driver = NoDriver =>
                /\ UNCHANGED <<driver, nextId, live, web>>
                /\ log'[p][Len(log'[p])].eng = NoDriver]_vars

\* stop_driver has run a second time in one call, with no handle held
C13_Witness ==
    \E p \in Procs :
        /\ pc[p] = "recover_start"
        /\ err[p].site = "reset_start"
        /\ CountOp(p, "stop_driver") = 2
        /\ log[p][Len(log[p])] = Entry("stop_driver", TRUE, NoDriver)

\* the first call of a strategy has been made
ReachedDispatch(p) == CountOp(p, "get") + CountOp(p, "post") > 0

\* C14: a call never has both a form call and a POST in it, and once its
\* strategy has started a POST was issued exactly when json_data is non-empty
\* and the request is no form request (data without both selectors included).
C14_OneStrategy ==
    \A p \in Procs :
        /\ ~(CountOp(p, "post") > 0 /\ \E op \in FormOps : CountOp(p, op) > 0)
        /\ (\E op \in FormOps : CountOp(p, op) > 0) => FormRequest(req[p])
        /\ ReachedDispatch(p) =>
            (CountOp(p, "post") = 1 <=> (Len(req[p].json_data) > 0 /\ ~FormRequest(req[p])))

\* a POST was issued for a request with data and json_data but without a form selector
C14_Witness ==
    \E p \in Procs :
        /\ Len(req[p].data) > 0
        /\ req[p].form_selector = None
        /\ req[p].submit_selector = "button"
        /\ Len(req[p].json_data) > 0
        /\ HasOp(p, "post", TRUE)
        /\ HasOp(p, "get", TRUE)

\* the strategy calls of p's log, in order
IsStrategyEntry(e) == e.op \in StrategyOps

StrategyLog(p) == SelectSeq(log[p], IsStrategyEntry)

\* the calls of the form strategy for n entries of data, in the order of the code
RECURSIVE FieldScript(_)
FieldScript(n) ==
    IF n = 0 THEN <<>> ELSE FieldScript(n - 1) \o <<"find_field", "clear_field", "send_keys">>

FormScript(n) ==
    <<"get", "find_form">> \o FieldScript(n) \o <<"find_submit", "click", "page_source">>

\* a locating call of the form strategy has failed
LocateFailed(p) ==
    \E op \in {"find_form", "find_field", "find_submit"} : HasOp(p, op, FALSE)

\* the order of the form strategy: the strategy calls made so far are the first
\* calls of navigate, locate form, locate-clear-set per entry, locate submit,
\* click, capture; none follows a failed one; the click comes after every entry
\* was set; a failed locating call leaves the call without a click.
FormOrder(p) ==
    LET sl == StrategyLog(p)
        script == FormScript(Len(req[p].data))
    IN  /\ Len(sl) <= Len(script)
        /\ \A i \in DOMAIN sl : sl[i].op = script[i] /\ (i < Len(sl) => sl[i].ok)
        /\ CountOp(p, "click") > 0 =>
                Cardinality({i \in DOMAIN sl : sl[i].op = "send_keys" /\ sl[i].ok})
                    = Len(req[p].data)
        /\ LocateFailed(p) => CountOp(p, "click") = 0

\* C15: a form request follows the order of the form strategy, and when the form,
\* a field or the submit control cannot be located the call ends in that failure
\* with a newly created engine held.
C15_FormStrategy ==
    \A p \in Procs :
        FormRequest(req[p]) =>
            /\ FormOrder(p)
            /\ (Returned(p) /\ LocateFailed(p)) =>
                /\ outcome[p].shape = "HTTP500"
                /\ outcome[p].cause = err[p]
                /\ driver # NoDriver
                /\ driver # drv[p]

\* the three clearing calls of reset_driver all succeeded
ClearedInPlace(p) ==
    /\ HasOp(p, "reset_cookies", TRUE)
    /\ HasOp(p, "reset_local", TRUE)
    /\ HasOp(p, "reset_session", TRUE)

\* a clearing call of reset_driver failed
ClearFailed(p) ==
    \E op \in {"reset_cookies", "reset_local", "reset_session"} : HasOp(p, op, FALSE)

\* C17: a call whose dispatch and three clearing calls succeeded has no
\* stop_driver in it and ends with the handle the manager held when the call
\* began; a call stops the engine only after a dispatch or a clearing failure.
C17_ReuseByDefault ==
    \A p \in Procs :
        /\ (Returned(p) /\ DispatchSucceeded(p) /\ ClearedInPlace(p)) =>
            /\ CountOp(p, "stop_driver") = 0
            /\ driver # NoDriver
            /\ driver = log[p][1].eng
        /\ CountOp(p, "stop_driver") > 0 => (DispatchFailed(p) \/ ClearFailed(p))

\* C18: at most one engine is alive at any moment (an engine is created only when
\* every engine created before is terminated), and start_driver at the head of a
\* call that began with a handle held returns that handle.
C18_OneEngine ==
    /\ Cardinality(live) <= 1
    /\ \A p \in Procs :
        (Len(log[p]) >= 2 /\ log[p][1].eng # NoDriver) =>
            log[p][2] = Entry("start_driver", TRUE, log[p][1].eng)

====
